---- MODULE Spec2Model ----
(***************************************************************************)
(* A model of the cyclescan canister-research pipeline:                    *)
(*   - the probes and the classifier of batch_research.py,                 *)
(*     research_all_unknowns.py, smart_batch_research.py and               *)
(*     research_unknowns_batch.py,                                         *)
(*   - the checkpointed batch loop of batch_research.py and                *)
(*     research_all_unknowns.py (main),                                    *)
(*   - the pattern pass of identify_patterns.py (process_unknowns),        *)
(*   - the resume filter of load_researched.py / find_unresearched.py,     *)
(*   - the merge of consolidate_results.py (main).                         *)
(*                                                                         *)
(* Strings.  A Python string is modelled as the sequence of its pieces.    *)
(* Token symbols and names are spelled character by character, so that     *)
(* str.startswith / str.endswith are computed on the characters; a         *)
(* literal of the program that is only ever concatenated or compared       *)
(* (" Ledger", "ODIN.fun") is one piece.  The character U+2022 is written  *)
(* "BULLET"; the three characters U+201A U+00C4 U+00A2 that                *)
(* research_all_unknowns.py holds in its place are written "SLQ", "AUML",  *)
(* "CENT".  A Candid text is the sequence of its words; `p in text` is     *)
(* the occurrence of the word p.                                           *)
(*                                                                         *)
(* JSON.  A result record has every key of the schema; the value Absent    *)
(* stands for a key the code did not write, None for JSON null.            *)
(***************************************************************************)
EXTENDS Integers, Sequences, FiniteSets, TLC

VARIABLES
    runner,              \* which script runs the batch loop
    world,               \* what the probes answer, per candidate of the list
    sink,                \* whether set_project calls on the backend may fail
    pc,                  \* position of the batch process
    canisters,           \* main: the candidate list loaded at start
    i,                   \* main: the loop index (enumerate(canisters, 1))
    identified_results,  \* main: in-memory Identified store
    unknown_results,     \* main: in-memory Unknown store
    progress,            \* main: in-memory ProgressState
    pending,             \* main: what research_canister returned for canister i
    disk,                \* the files: stores, progress, candidate lists
    backend_calls,       \* set_project calls made by the current run
    errors,              \* number of unexpected errors raised so far
    loaded,              \* ids in the stores main loaded at start, progress loaded
    bundle,              \* classifier: the EvidenceBundle under classification
    verdict,             \* classifier: the outcome of the classification
    inputs,              \* merge: the input stores of consolidate_results
    merged,              \* merge: the outputs of consolidate_results
    files,               \* resume: the files the resume scripts read
    remaining            \* resume: the files the resume scripts wrote

vars == << runner, world, sink, pc, canisters, i, identified_results, unknown_results,
           progress, pending, disk, backend_calls, errors, loaded,
           bundle, verdict, inputs, merged, files, remaining >>

-----------------------------------------------------------------------------
(* Strings *)

None == << "NULL" >>
Absent == << "ABSENT" >>

IsStr(s) == s # None /\ s # Absent

\* Python truthiness of an optional string: None, a missing key and "" are falsy
Truthy(s) == IsStr(s) /\ Len(s) > 0

startswith(s, p) ==
    /\ Len(s) >= Len(p)
    /\ SubSeq(s, 1, Len(p)) = p

endswith(s, p) ==
    /\ Len(s) >= Len(p)
    /\ SubSeq(s, Len(s) - Len(p) + 1, Len(s)) = p

SeqToSet(s) == { s[k] : k \in 1..Len(s) }

-----------------------------------------------------------------------------
(* Literals of the program *)

L(s) == << s >>

\* batch_research.py:130 and smart_batch_research.py:98: "<U+2022>ODIN"
ODIN_SUFFIX == << "BULLET", "O", "D", "I", "N" >>

\* research_all_unknowns.py:122: the same literal as the file holds it
ODIN_SUFFIX_ALL == << "SLQ", "AUML", "CENT", "O", "D", "I", "N" >>

CK_PREFIX == << "c", "k" >>

\* identify_patterns.py: CANDID_PATTERNS, in the order the dict declares them
CANDID_PATTERNS == <<
    [ name |-> "asset_canister",
      patterns |-> << "CreateAssetArguments", "SetAssetContentArguments", "ChunkId", "BatchId" >>,
      project |-> L("Asset Canister"), category |-> L("infrastructure"),
      notes |-> L("Frontend asset canister - website hosting") ],
    [ name |-> "orbit_station",
      patterns |-> << "AssetSymbol", "NetworkId", "UUID", "RequestPolicy" >>,
      project |-> L("Orbit Station"), category |-> L("infrastructure"),
      notes |-> L("Orbit multi-sig wallet/station") ],
    [ name |-> "icrc1_archive",
      patterns |-> << "GetTransactionsRequest", "GetTransactionsResponse",
                      "ArchivedTransactionResponse", "QueryArchiveFn" >>,
      project |-> L("ICRC-1 Archive"), category |-> L("infrastructure"),
      notes |-> L("ICRC-1 token ledger archive") ],
    [ name |-> "icpswap",
      patterns |-> << "SwapArgs", "addLiquidity", "removeLiquidity", "quote", "token0", "token1" >>,
      project |-> L("ICPSwap"), category |-> L("defi"),
      notes |-> L("ICPSwap AMM pool") ],
    [ name |-> "sonic",
      patterns |-> << "addLiquidity", "swap", "deposit", "withdraw", "getTokenBalance" >>,
      project |-> L("Sonic"), category |-> L("defi"),
      notes |-> L("Sonic DEX pool or component") ],
    [ name |-> "nft_dip721",
      patterns |-> << "TokenMetadata", "ownerOf", "transferFrom", "balanceOf", "totalSupply", "dip721" >>,
      project |-> L("NFT Collection"), category |-> L("nft"),
      notes |-> L("DIP-721 NFT collection") ],
    [ name |-> "http_gateway",
      patterns |-> << "http_request", "HttpRequest", "HttpResponse", "streaming_callback" >>,
      project |-> L("HTTP Gateway"), category |-> L("infrastructure"),
      notes |-> L("HTTP gateway canister") ]
>>

\* the words of the model's Candid texts that hold another word as a proper
\* substring: << p, w >> says p occurs inside w
ProperSubstrings == {
    << "ArchivedTransaction", "ArchivedTransactionResponse" >>,
    << "Transaction", "ArchivedTransactionResponse" >>,
    << "Transaction", "GetTransactionsResponse" >>,
    << "Transaction", "GetTransactionsRequest" >>,
    << "Transaction", "ArchivedTransaction" >> }

\* Python `p in candid` on the text: p occurs in some word of it
Occurs(text, p) ==
    \E k \in 1..Len(text) : text[k] = p \/ << p, text[k] >> \in ProperSubstrings

-----------------------------------------------------------------------------
(* Probe outcomes.  A probe is one dfx subprocess: "reply" is an answer     *)
(* that holds a value (for a call: stdout holding ("value") or             *)
(* principal "id"; for the metadata read: return code 0), "error" is an    *)
(* answer without one (a reject, a non-zero return code), "timeout" is     *)
(* subprocess.run raising.                                                 *)

Reply(v) == [ kind |-> "reply", value |-> v ]

Failed == [ kind |-> "error", value |-> None ]

TimedOut == [ kind |-> "timeout", value |-> None ]

\* batch_research.py / research_all_unknowns.py: query_candid.  The value of
\* a reply is the text that result.stdout[:500] keeps
query_candid(out) ==
    IF out.kind = "reply"
    THEN [ available |-> TRUE, data |-> out.value ]
    ELSE IF out.kind = "timeout"
         THEN [ available |-> FALSE, data |-> L("str(e)") ]
         ELSE [ available |-> FALSE, data |-> None ]

\* batch_research.py / research_all_unknowns.py: query_icrc1
query_icrc1(name_out, symbol_out) ==
    IF name_out.kind = "timeout" \/ symbol_out.kind = "timeout"
    THEN [ is_token |-> FALSE, name |-> None, symbol |-> None ]
    ELSE IF name_out.kind = "reply" /\ symbol_out.kind = "reply"
         THEN [ is_token |-> TRUE, name |-> name_out.value, symbol |-> symbol_out.value ]
         ELSE [ is_token |-> FALSE, name |-> None, symbol |-> None ]

\* batch_research.py / research_all_unknowns.py: query_index
query_index(ledger_out) ==
    IF ledger_out.kind = "reply"
    THEN [ is_index |-> TRUE, ledger_id |-> ledger_out.value ]
    ELSE [ is_index |-> FALSE, ledger_id |-> None ]

-----------------------------------------------------------------------------
(* The classifier of batch_research.py *)

\* the record research_canister starts from (its keys not yet written: Absent)
NewResult(canister_id, rank, candid) ==
    [ canister_id |-> canister_id,
      burn_rank |-> rank,
      candid_available |-> candid.available,
      candid_summary |-> IF candid.available THEN candid.data ELSE Absent,
      is_token |-> FALSE,
      token_name |-> Absent,
      token_symbol |-> Absent,
      project |-> Absent,
      category |-> Absent,
      reason |-> Absent,
      ledger_id |-> Absent,
      methods_tried |-> FALSE,
      notes |-> Absent,
      identified_by |-> Absent ]

\* a mutant of identify_token: the prefix rule is tried before the suffix rule
identify_token_prefix_first(name, symbol) ==
    IF startswith(symbol, CK_PREFIX)
    THEN [ project |-> symbol \o L(" Ledger"), category |-> L("nns_infrastructure") ]
    ELSE IF endswith(symbol, ODIN_SUFFIX)
         THEN [ project |-> L("ODIN.fun"), category |-> L("token") ]
         ELSE [ project |-> None, category |-> L("token") ]

\* a mutant of identify_token: the prefix is compared in capitals
identify_token_capital_prefix(name, symbol) ==
    IF endswith(symbol, ODIN_SUFFIX)
    THEN [ project |-> L("ODIN.fun"), category |-> L("token") ]
    ELSE IF startswith(symbol, << "C", "K" >>)
         THEN [ project |-> symbol \o L(" Ledger"), category |-> L("nns_infrastructure") ]
         ELSE [ project |-> None, category |-> L("token") ]

\* batch_research.py: identify_token
identify_token(name, symbol) ==
    IF endswith(symbol, ODIN_SUFFIX)
    THEN [ project |-> L("ODIN.fun"), category |-> L("token") ]
    ELSE IF startswith(symbol, CK_PREFIX)
         THEN [ project |-> symbol \o L(" Ledger"), category |-> L("nns_infrastructure") ]
         ELSE [ project |-> None, category |-> L("token") ]

\* research_all_unknowns.py: identify_token
identify_token_all(name, symbol) ==
    IF endswith(symbol, ODIN_SUFFIX_ALL)
    THEN [ project |-> L("ODIN.fun"), category |-> L("token") ]
    ELSE IF startswith(symbol, CK_PREFIX)
         THEN [ project |-> symbol \o L(" Ledger"), category |-> L("nns_infrastructure") ]
         ELSE [ project |-> None, category |-> L("token") ]

\* one set_project_backend(canister_id, project_name) call
SinkCall(canister_id, project) == [ canister_id |-> canister_id, label |-> project ]

\* research_canister, from the token probe on: what the token branch returns
TokenBranch(r, canister_id, t, id) ==
    IF Truthy(id.project)
    THEN [ status |-> "identified",
           result |-> [ r EXCEPT !.is_token = TRUE, !.token_name = t.name,
                                 !.token_symbol = t.symbol,
                                 !.project = id.project, !.category = id.category,
                                 !.notes = L("Auto-identified ") \o t.symbol \o L(" token") ],
           calls |-> << SinkCall(canister_id, id.project) >> ]
    ELSE [ status |-> "unknown",
           result |-> [ r EXCEPT !.is_token = TRUE, !.token_name = t.name,
                                 !.token_symbol = t.symbol,
                                 !.project = None,
                                 !.reason = L("token_unknown_project"),
                                 !.notes = L("ICRC-1 token ") \o t.name \o L(" (") \o t.symbol
                                           \o L(") - project not identified") ],
           calls |-> << >> ]

\* a mutant of IndexBranch: the label is built from the ledger's token name
IndexBranch_uses_name(r, canister_id, x, lt) ==
    LET project == lt.name \o L(" Index")
    IN  [ status |-> "identified",
          result |-> [ r EXCEPT !.project = project,
                                !.category = L("nns_infrastructure"),
                                !.ledger_id = x.ledger_id,
                                !.notes = L("Index for ") \o lt.symbol \o L(" ledger") ],
          calls |-> << SinkCall(canister_id, project) >> ]

\* research_canister: the index canister whose ledger answers as a token
IndexBranch(r, canister_id, x, lt) ==
    LET project == lt.symbol \o L(" Index")
    IN  [ status |-> "identified",
          result |-> [ r EXCEPT !.project = project,
                                !.category = L("nns_infrastructure"),
                                !.ledger_id = x.ledger_id,
                                !.notes = L("Index for ") \o lt.symbol \o L(" ledger") ],
          calls |-> << SinkCall(canister_id, project) >> ]

\* research_canister: "Could not identify"
UnknownBranch(r) ==
    [ status |-> "unknown",
      result |-> [ r EXCEPT !.project = None,
                            !.reason = IF r.candid_available
                                       THEN L("candid_unrecognizable")
                                       ELSE L("no_candid_metadata"),
                            !.methods_tried = TRUE,
                            !.notes = L("Auto-identification failed - needs manual research") ],
      calls |-> << >> ]

\* batch_research.py: research_canister.  ev is what the probes answer.
research_canister(canister_id, rank, ev) ==
    LET r == NewResult(canister_id, rank, query_candid(ev.candid))
        t == query_icrc1(ev.name, ev.symbol)
        x == query_index(ev.ledger)
        lt == query_icrc1(ev.ledger_name, ev.ledger_symbol)
    IN  IF t.is_token
        THEN TokenBranch(r, canister_id, t, identify_token(t.name, t.symbol))
        ELSE IF x.is_index
             THEN IF lt.is_token
                  THEN IndexBranch(r, canister_id, x, lt)
                  ELSE [ status |-> "unknown",
                         result |-> [ r EXCEPT !.project = None,
                                               !.reason = L("index_ledger_unknown"),
                                               !.ledger_id = x.ledger_id,
                                               !.notes = L("Index canister for ") \o x.ledger_id
                                                         \o L(" but could not identify token") ],
                         calls |-> << >> ]
             ELSE UnknownBranch(r)

\* research_all_unknowns.py: research_canister
research_canister_all(canister_id, rank, ev) ==
    LET r == NewResult(canister_id, rank, query_candid(ev.candid))
        t == query_icrc1(ev.name, ev.symbol)
        x == query_index(ev.ledger)
        lt == query_icrc1(ev.ledger_name, ev.ledger_symbol)
    IN  IF t.is_token
        THEN TokenBranch(r, canister_id, t, identify_token_all(t.name, t.symbol))
        ELSE IF x.is_index /\ lt.is_token
             THEN IndexBranch(r, canister_id, x, lt)
             ELSE UnknownBranch(r)

-----------------------------------------------------------------------------
(* The classifier of smart_batch_research.py *)

\* smart_batch_research.py: query_candid (stdout when the return code is 0)
smart_query_candid(out) == IF out.kind = "reply" THEN out.value ELSE None

\* smart_batch_research.py: query_icrc1: only the symbol's answer is required
smart_query_icrc1(name_out, symbol_out) ==
    IF name_out.kind = "timeout" \/ symbol_out.kind = "timeout"
    THEN [ name |-> None, symbol |-> None ]
    ELSE IF symbol_out.kind = "reply"
         THEN [ name |-> IF name_out.kind = "reply" THEN name_out.value ELSE None,
                symbol |-> symbol_out.value ]
         ELSE [ name |-> None, symbol |-> None ]

\* smart_batch_research.py: query_ledger_id
query_ledger_id(ledger_out) ==
    IF ledger_out.kind = "reply" THEN ledger_out.value ELSE None

\* smart_batch_research.py: identify_by_candid; the second component is the
\* category of an identified candidate and the reason of an unknown one
identify_by_candid(candid) ==
    IF ~Truthy(candid)
    THEN [ project |-> None, category |-> L("no_candid_metadata") ]
    ELSE IF Occurs(candid, "CreateAssetArguments") /\ Occurs(candid, "BatchId")
            /\ Occurs(candid, "ChunkId")
    THEN [ project |-> L("Asset Canister"), category |-> L("infrastructure") ]
    ELSE IF Occurs(candid, "RequestPolicy") /\ Occurs(candid, "AssetSymbol")
            /\ Occurs(candid, "NetworkId")
    THEN [ project |-> L("Orbit Station"), category |-> L("infrastructure") ]
    ELSE IF (Occurs(candid, "hub_principal") /\ Occurs(candid, "GenerateTicketReq"))
            \/ Occurs(candid, "omnity_chain_id")
    THEN [ project |-> L("Omnity"), category |-> L("defi") ]
    ELSE IF (Occurs(candid, "customs") /\ Occurs(candid, "indexer"))
            \/ Occurs(candid, "RuneBalance")
    THEN [ project |-> L("OmniBTC"), category |-> L("defi") ]
    ELSE IF Occurs(candid, "GetTransactionsResponse") /\ Occurs(candid, "ArchivedTransaction")
    THEN [ project |-> L("ICRC-1 Archive"), category |-> L("infrastructure") ]
    ELSE IF Occurs(candid, "BlockIndex") /\ Occurs(candid, "Transaction")
            /\ Occurs(candid, "service : {}")
    THEN [ project |-> L("ICRC-1 Archive"), category |-> L("infrastructure") ]
    ELSE IF Occurs(candid, "EthMainnetService") \/ Occurs(candid, "EthSepoliaService")
    THEN [ project |-> L("EVM RPC"), category |-> L("infrastructure") ]
    ELSE IF Occurs(candid, "EtchingArgs") /\ Occurs(candid, "rune_name")
    THEN [ project |-> L("Bitcoin Runes Etching"), category |-> L("infrastructure") ]
    ELSE [ project |-> None, category |-> L("candid_unrecognizable") ]

\* a mutant of smart_research_canister: "Check Candid" runs before "Try token"
smart_research_canister_descriptor_first(cid, ev) ==
    LET t == smart_query_icrc1(ev.name, ev.symbol)
        candid == smart_query_candid(ev.candid)
        c == identify_by_candid(candid)
        blank == [ cid |-> cid, project |-> None, type |-> Absent,
                   category |-> Absent, reason |-> Absent, candid |-> Absent ]
    IN  IF Truthy(c.project)
        THEN [ result |-> [ blank EXCEPT !.project = c.project, !.category = c.category ],
               calls |-> << SinkCall(cid, c.project) >> ]
        ELSE IF Truthy(t.symbol)
        THEN LET project ==
                   IF endswith(t.symbol, ODIN_SUFFIX) THEN L("ODIN.fun")
                   ELSE IF startswith(t.symbol, CK_PREFIX) THEN t.symbol \o L(" Ledger")
                   ELSE t.symbol \o L(" Token")
             IN  [ result |-> [ blank EXCEPT !.project = project, !.type = L("token") ],
                   calls |-> << SinkCall(cid, project) >> ]
        ELSE [ result |-> [ blank EXCEPT !.reason = c.category,
                                         !.candid = IF Truthy(candid) THEN candid ELSE None ],
               calls |-> << >> ]

\* smart_batch_research.py: research_canister
smart_research_canister(cid, ev) ==
    LET t == smart_query_icrc1(ev.name, ev.symbol)
        ledger_id == query_ledger_id(ev.ledger)
        lt == smart_query_icrc1(ev.ledger_name, ev.ledger_symbol)
        candid == smart_query_candid(ev.candid)
        c == identify_by_candid(candid)
        blank == [ cid |-> cid, project |-> None, type |-> Absent,
                   category |-> Absent, reason |-> Absent, candid |-> Absent ]
    IN  IF Truthy(t.symbol)
        THEN LET project ==
                   IF endswith(t.symbol, ODIN_SUFFIX) THEN L("ODIN.fun")
                   ELSE IF startswith(t.symbol, CK_PREFIX) THEN t.symbol \o L(" Ledger")
                   ELSE t.symbol \o L(" Token")
             IN  [ result |-> [ blank EXCEPT !.project = project, !.type = L("token") ],
                   calls |-> << SinkCall(cid, project) >> ]
        ELSE IF Truthy(ledger_id) /\ Truthy(lt.symbol)
        THEN LET project == lt.symbol \o L(" Index")
             IN  [ result |-> [ blank EXCEPT !.project = project, !.type = L("index") ],
                   calls |-> << SinkCall(cid, project) >> ]
        ELSE IF Truthy(c.project)
        THEN [ result |-> [ blank EXCEPT !.project = c.project, !.category = c.category ],
               calls |-> << SinkCall(cid, c.project) >> ]
        ELSE [ result |-> [ blank EXCEPT !.reason = c.category,
                                         !.candid = IF Truthy(candid) THEN candid ELSE None ],
               calls |-> << >> ]

-----------------------------------------------------------------------------
(* The classifier and the loop body of research_unknowns_batch.py *)

\* str.upper() on the letters of the names and symbols of the model
UpperChar(ch) ==
    CASE ch = "x" -> "X" [] ch = "c" -> "C" [] ch = "k" -> "K" [] ch = "o" -> "O"
      [] OTHER -> ch

upper(s) == [ k \in 1..Len(s) |-> UpperChar(s[k]) ]

\* Python `p in s` on two strings
IsSubstring(p, s) ==
    \E k \in 0..(Len(s) - Len(p)) : SubSeq(s, k + 1, k + Len(p)) = p

\* << p, word >>: p occurs in word.lower(), for the words of the Candid texts
\* of the model and the patterns of identify_from_candid
LowerSubstrings == {
    << "swap", "swap" >>, << "swap", "SwapArgs" >>, << "pool", "pool" >>,
    << "request", "http_request" >> }

\* `p in candid_lower`
LowerOccurs(text, p) ==
    \E k \in 1..Len(text) : << p, text[k] >> \in LowerSubstrings

\* research_unknowns_batch.py: check_icrc1_token, (name, symbol) or None
check_icrc1_token(name_out, symbol_out) ==
    IF name_out.kind = "reply" /\ Truthy(name_out.value)
       /\ symbol_out.kind = "reply" /\ Truthy(symbol_out.value)
    THEN << name_out.value, symbol_out.value >>
    ELSE None

\* research_unknowns_batch.py: check_ledger_id
check_ledger_id(ledger_out) ==
    IF ledger_out.kind = "reply" THEN ledger_out.value ELSE None

\* research_unknowns_batch.py: get_candid
get_candid(out) ==
    IF out.kind = "reply" /\ Truthy(out.value) THEN out.value ELSE None

\* research_unknowns_batch.py: identify_from_candid
identify_from_candid(candid) ==
    IF LowerOccurs(candid, "station") /\ LowerOccurs(candid, "request")
    THEN L("Orbit Station")
    ELSE IF LowerOccurs(candid, "get_sns_") \/ LowerOccurs(candid, "sns_")
    THEN L("SNS Component")
    ELSE IF LowerOccurs(candid, "swap") /\ LowerOccurs(candid, "pool")
    THEN L("DEX")
    ELSE IF LowerOccurs(candid, "chain") /\ LowerOccurs(candid, "directive")
    THEN L("OmniBTC")
    ELSE IF LowerOccurs(candid, "nft")
            /\ (LowerOccurs(candid, "collection") \/ LowerOccurs(candid, "token_metadata"))
    THEN L("NFT")
    ELSE IF LowerOccurs(candid, "logger") \/ LowerOccurs(candid, "log_")
    THEN L("Logger Canister")
    ELSE IF Occurs(candid, "http_request") /\ LowerOccurs(candid, "certified_tree")
    THEN L("Asset Canister")
    ELSE None

\* research_unknowns_batch.py: identify_token_project
identify_token_project(name, symbol) ==
    IF IsSubstring(<< "O", "D", "I", "N" >>, upper(name))
       \/ IsSubstring(ODIN_SUFFIX, upper(symbol))
    THEN L("ODIN.fun")
    ELSE IF IsSubstring(<< "W", "E", "L", "L" >>, upper(symbol))
            \/ IsSubstring(<< "F", "O", "M", "O" >>, upper(name))
    THEN L("FomoWell")
    ELSE IF IsSubstring(<< ".", "O", "T" >>, upper(symbol))
    THEN L("Ordi Trade")
    ELSE IF IsSubstring(<< "S", "N", "S" >>, upper(symbol))
            \/ IsSubstring(<< "N", "E", "U", "R", "O", "N" >>, upper(name))
    THEN L("SNS Token")
    ELSE symbol \o L(" Token")

\* research_unknowns_batch.py: research_canister; the notes are left out
review_research_canister(canister_id, ev) ==
    LET result == [ canister_id |-> canister_id, project |-> None,
                    category |-> None, reason |-> Absent ]
        token_info == check_icrc1_token(ev.name, ev.symbol)
        ledger == check_ledger_id(ev.ledger)
        ledger_info == check_icrc1_token(ev.ledger_name, ev.ledger_symbol)
        candid == get_candid(ev.candid)
    IN  IF token_info # None
        THEN [ result EXCEPT
                 !.project = identify_token_project(token_info[1], token_info[2]) ]
        ELSE IF Truthy(ledger)
        THEN IF ledger_info # None
             THEN [ result EXCEPT !.project = ledger_info[2] \o L(" Index") ]
             ELSE [ result EXCEPT !.project = L("Index Canister") ]
        ELSE IF Truthy(candid)
        THEN IF identify_from_candid(candid) # None
             THEN [ result EXCEPT !.project = identify_from_candid(candid) ]
             ELSE [ result EXCEPT !.category = L("Unidentified") ]
        ELSE [ result EXCEPT !.category = L("Unidentified (no candid)") ]

\* research_unknowns_batch.py main: `finding.get('project') or
\* finding.get('category') or "Unidentified"`
final_project(finding) ==
    IF Truthy(finding.project) THEN finding.project
    ELSE IF Truthy(finding.category) THEN finding.category
    ELSE L("Unidentified")

\* research_unknowns_batch.py main: the body of the loop for one candidate,
\* the finding appended and the set_project call made
review_one(canister_id, ev) ==
    LET finding == review_research_canister(canister_id, ev)
    IN  [ result |-> finding,
          calls |-> << SinkCall(canister_id, final_project(finding)) >> ]

-----------------------------------------------------------------------------
(* The pattern pass of identify_patterns.py *)

\* number of the patterns of one rule that occur in the text
RECURSIVE CountMatches(_, _)
CountMatches(patterns, text) ==
    IF patterns = << >> THEN 0
    ELSE (IF Occurs(text, Head(patterns)) THEN 1 ELSE 0)
         + CountMatches(Tail(patterns), text)

NoMatch == [ project |-> None, category |-> None, notes |-> None ]

\* a mutant of AnalyzeFrom: a rule needs three of its markers
RECURSIVE AnalyzeFrom_needs_three(_, _)
AnalyzeFrom_needs_three(k, text) ==
    IF k > Len(CANDID_PATTERNS) THEN NoMatch
    ELSE IF CountMatches(CANDID_PATTERNS[k].patterns, text) >= 3
         THEN [ project |-> CANDID_PATTERNS[k].project,
                category |-> CANDID_PATTERNS[k].category,
                notes |-> CANDID_PATTERNS[k].notes ]
         ELSE AnalyzeFrom_needs_three(k + 1, text)

\* a mutant of AnalyzeFrom: the loop does not return at the first rule that
\* reaches the threshold, a later rule that reaches it overwrites the answer
RECURSIVE AnalyzeFrom_last_wins(_, _)
AnalyzeFrom_last_wins(k, text) ==
    IF k > Len(CANDID_PATTERNS) THEN NoMatch
    ELSE IF AnalyzeFrom_last_wins(k + 1, text) # NoMatch
         THEN AnalyzeFrom_last_wins(k + 1, text)
         ELSE IF CountMatches(CANDID_PATTERNS[k].patterns, text) >= 2
              THEN [ project |-> CANDID_PATTERNS[k].project,
                     category |-> CANDID_PATTERNS[k].category,
                     notes |-> CANDID_PATTERNS[k].notes ]
              ELSE NoMatch

\* the loop of analyze_candid over the rules from rule k on
RECURSIVE AnalyzeFrom(_, _)
AnalyzeFrom(k, text) ==
    IF k > Len(CANDID_PATTERNS) THEN NoMatch
    ELSE IF CountMatches(CANDID_PATTERNS[k].patterns, text) >= 2
         THEN [ project |-> CANDID_PATTERNS[k].project,
                category |-> CANDID_PATTERNS[k].category,
                notes |-> CANDID_PATTERNS[k].notes ]
         ELSE AnalyzeFrom(k + 1, text)

\* identify_patterns.py: analyze_candid
analyze_candid(candid_summary) ==
    IF ~Truthy(candid_summary) THEN NoMatch ELSE AnalyzeFrom(1, candid_summary)

\* process_unknowns: does the pass identify this entry of the Unknown store
Promotable(entry) ==
    /\ ~Truthy(entry.project)
    /\ Truthy(entry.candid_summary)
    /\ Truthy(analyze_candid(entry.candid_summary).project)

\* a mutant of Promoted: the pass forgets `del entry['reason']`
Promoted_keeps_reason(entry) ==
    LET a == analyze_candid(entry.candid_summary)
    IN  [ entry EXCEPT !.project = a.project, !.category = a.category,
                       !.notes = a.notes,
                       !.identified_by = L("candid_pattern_matching") ]

\* process_unknowns: the entry as it is appended to the Identified store
Promoted(entry) ==
    LET a == analyze_candid(entry.candid_summary)
    IN  [ entry EXCEPT !.project = a.project, !.category = a.category,
                       !.notes = a.notes,
                       !.identified_by = L("candid_pattern_matching"),
                       !.reason = Absent ]

RECURSIVE MapPromoted(_)
MapPromoted(s) ==
    IF s = << >> THEN << >>
    ELSE IF Promotable(Head(s))
         THEN << Promoted(Head(s)) >> \o MapPromoted(Tail(s))
         ELSE MapPromoted(Tail(s))

\* a mutant of StillUnknown: the pass forgets the `continue` after a promotion,
\* so the updated entry is appended to still_unknown too
RECURSIVE StillUnknown_no_continue(_)
StillUnknown_no_continue(s) ==
    IF s = << >> THEN << >>
    ELSE IF Promotable(Head(s))
         THEN << Promoted(Head(s)) >> \o StillUnknown_no_continue(Tail(s))
         ELSE << Head(s) >> \o StillUnknown_no_continue(Tail(s))

\* process_unknowns: still_unknown, the entries the pass leaves in the Unknown store
RECURSIVE StillUnknown(_)
StillUnknown(s) ==
    IF s = << >> THEN << >>
    ELSE IF Promotable(Head(s))
         THEN StillUnknown(Tail(s))
         ELSE << Head(s) >> \o StillUnknown(Tail(s))

RECURSIVE CallsOf(_)
CallsOf(s) ==
    IF s = << >> THEN << >>
    ELSE << SinkCall(Head(s).canister_id, Head(s).project) >> \o CallsOf(Tail(s))

\* `del entry['reason']` raises KeyError on an entry without the key
RaisesKeyError(unknowns) ==
    \E k \in 1..Len(unknowns) : Promotable(unknowns[k]) /\ unknowns[k].reason = Absent

\* a mutant of process_unknowns: only the newly identified entries are saved
\* to the Identified file
process_unknowns_saves_new_only(identified, unknowns) ==
    IF RaisesKeyError(unknowns)
    THEN [ identified |-> identified, unknown |-> unknowns, saved |-> FALSE,
           calls |-> << >> ]
    ELSE [ identified |-> MapPromoted(unknowns),
           unknown |-> StillUnknown(unknowns),
           saved |-> TRUE,
           calls |-> CallsOf(MapPromoted(unknowns)) ]

\* identify_patterns.py: process_unknowns, as a function of the two store files
process_unknowns(identified, unknowns) ==
    IF RaisesKeyError(unknowns)
    THEN [ identified |-> identified, unknown |-> unknowns, saved |-> FALSE,
           calls |-> << >> ]
    ELSE [ identified |-> identified \o MapPromoted(unknowns),
           unknown |-> StillUnknown(unknowns),
           saved |-> TRUE,
           calls |-> CallsOf(MapPromoted(unknowns)) ]

-----------------------------------------------------------------------------
(* Bounds of the model *)

\* unexpected errors research_canister may raise in one behaviour
MaxErrors == 1

\* a run of main starts only while the two stores on disk hold at most this
\* many records: the batch is restarted after a run that ended early
MaxRestart == 1

-----------------------------------------------------------------------------
(* The candidates and what the probes answer *)

\* unknowns_to_research.json, the list load_researched.py filters
UNIVERSE == << "c01", "c02", "c03", "c04", "c05", "c06",
               "c07", "c08", "c09", "c10", "c11", "c12" >>

S_xODIN == << "x", "BULLET", "O", "D", "I", "N" >>
S_ckBTC == << "c", "k", "B", "T", "C" >>
S_ckODIN == << "c", "k", "BULLET", "O", "D", "I", "N" >>
S_ABC == << "A", "B", "C" >>
S_ICP == << "I", "C", "P" >>
S_empty == << >>
N_tok == << "T", "o", "k" >>

LEDGER == L("ryjl3-tyaaa-aaaaa-aaaba-cai")

T_plain == << "service", "greet" >>
T_asset2 == << "CreateAssetArguments", "BatchId" >>
T_asset3 == << "CreateAssetArguments", "BatchId", "ChunkId" >>
T_dex == << "addLiquidity", "swap", "deposit", "SwapArgs" >>
T_nft == << "TokenMetadata", "balanceOf" >>
T_one == << "http_request" >>
T_empty == << >>
T_pool == << "swap", "pool" >>

Ev(candid, name, symbol, ledger, ledger_name, ledger_symbol) ==
    [ candid |-> candid, name |-> name, symbol |-> symbol, ledger |-> ledger,
      ledger_name |-> ledger_name, ledger_symbol |-> ledger_symbol ]

\* the evidence profiles the batch runs meet, one per branch of the classifier
Profiles == <<
    Ev(Reply(T_plain), Reply(N_tok), Reply(S_xODIN), Failed, Failed, Failed),
    Ev(Reply(T_asset2), Failed, Failed, Failed, Failed, Failed),
    Ev(Reply(T_asset2), Reply(N_tok), Reply(S_ckBTC), Failed, Failed, Failed),
    Ev(Failed, Failed, TimedOut, Reply(LEDGER), Reply(N_tok), Reply(S_ICP)),
    Ev(Reply(T_nft), Reply(N_tok), Reply(S_ABC), Failed, Failed, Failed),
    Ev(Reply(T_plain), Failed, Failed, Reply(LEDGER), Failed, TimedOut),
    Ev(TimedOut, Failed, Failed, Failed, Failed, Failed),
    Ev(Reply(T_plain), Reply(N_tok), Failed, Failed, Failed, Failed)
>>

\* the shifts of the profiles over the candidates that a behaviour may start in
Worlds == { 0 }

IndexOf(seq, x) == CHOOSE k \in 1..Len(seq) : seq[k] = x

\* the candidates whose probe output may make research_canister raise
Flaky == { "c03", "c10" }

\* what the probes answer for a candidate in world w
Evidence(w, canister_id) ==
    Profiles[((IndexOf(UNIVERSE, canister_id) + w) % Len(Profiles)) + 1]

-----------------------------------------------------------------------------
(* Files *)

Runners == { "batch_research", "research_all_unknowns" }

\* batch_research.py:281 and research_all_unknowns.py:220: `if i % K == 0`
SAVE_EVERY_batch == 10
SAVE_EVERY_all == 50

SaveEvery(r) == IF r = "batch_research" THEN SAVE_EVERY_batch ELSE SAVE_EVERY_all

\* load_progress: the tracker of a missing or unreadable progress file
DefaultProgress ==
    [ total_canisters |-> 0, researched |-> 0, identified |-> 0,
      unknown_documented |-> 0, remaining |-> 0,
      last_canister_id |-> None, last_updated |-> None ]

NoFile == [ missing |-> TRUE ]

\* batch_research.py / research_all_unknowns.py: load_progress
load_progress(file) == IF file = NoFile THEN DefaultProgress ELSE file

\* batch_research.py / research_all_unknowns.py: save_progress stamps the tracker
Stamped(p) == [ p EXCEPT !.last_updated = L("now") ]

\* research_results.json, the store of the earlier research: one of the universe
RESEARCH_RESULTS == << [ canister_id |-> "c12", project |-> L("ICPSwap"),
                         notes |-> L("done") ] >>

Ids(store) == { store[k].canister_id : k \in 1..Len(store) }

\* a mutant of load_researched: the Unknown store is not read
load_researched_skips_unknown(results, results2, results_unknown) ==
    Ids(results) \cup Ids(results2)

\* load_researched.py: load_researched, over the three store files it reads
load_researched(results, results2, results_unknown) ==
    Ids(results) \cup Ids(results2) \cup Ids(results_unknown)

RECURSIVE FilterOut(_, _)
FilterOut(list, researched) ==
    IF list = << >> THEN << >>
    ELSE IF Head(list) \in researched
         THEN FilterOut(Tail(list), researched)
         ELSE << Head(list) >> \o FilterOut(Tail(list), researched)

\* load_researched.py __main__: needs_research.json
needs_research(unknowns, researched) == FilterOut(unknowns, researched)

\* find_unresearched.py: truly_unresearched.json (a set difference, then sorted;
\* the set is what the model keeps)
truly_unresearched(current_unknowns, researched) == current_unknowns \ researched

-----------------------------------------------------------------------------
(* The batch loop: main of batch_research.py and research_all_unknowns.py *)

NoPending == [ status |-> "none", calls |-> << >> ]

NoBundle == [ none |-> TRUE ]

NoVerdict == [ status |-> "none", calls |-> << >> ]

NoInputs == [ original |-> << >>, new |-> << >> ]

NoMerged == [ done |-> FALSE, runs |-> 0 ]

NoFiles == [ none |-> TRUE ]

NoRemaining == [ needs_research |-> << "not written" >>,
                 truly_unresearched |-> { "not written" },
                 runs |-> 0,
                 first |-> { "not written" } ]

\* positions inside the try block of the loop body
InTry == { "research", "set_project", "append", "tally", "progress", "checkpoint" }

\* positions of a running process
Running == InTry \cup { "loop", "final" }

\* positions of a process that has ended
Ended == { "done", "exited", "killed" }

\* the files of the runner before its first run; needs_research.json is what
\* load_researched.py made of the universe and research_results.json
InitialDisk ==
    [ identified |-> << >>,
      unknown |-> << >>,
      progress |-> NoFile,
      needs_research |-> needs_research(UNIVERSE,
                             load_researched(RESEARCH_RESULTS, << >>, << >>)),
      denied |-> {} ]

BatchVarsInitButDisk ==
    /\ pc = "idle"
    /\ canisters = << >>
    /\ i = 0
    /\ identified_results = << >>
    /\ unknown_results = << >>
    /\ progress = DefaultProgress
    /\ pending = NoPending
    /\ backend_calls = << >>
    /\ errors = 0
    /\ loaded = [ ids |-> {}, progress |-> DefaultProgress ]

BatchVarsInit ==
    /\ BatchVarsInitButDisk
    /\ disk = InitialDisk

OtherVarsInit ==
    /\ bundle = NoBundle
    /\ verdict = NoVerdict
    /\ inputs = NoInputs
    /\ merged = NoMerged
    /\ files = NoFiles
    /\ remaining = NoRemaining

OtherVarsInitButFiles ==
    /\ bundle = NoBundle
    /\ verdict = NoVerdict
    /\ inputs = NoInputs
    /\ merged = NoMerged

Init ==
    /\ runner \in Runners
    /\ world \in Worlds
    /\ sink = "up"
    /\ BatchVarsInit
    /\ OtherVarsInit

other_vars == << bundle, verdict, inputs, merged, files, remaining >>

\* save_results twice and save_progress: the files after a flush
Flushed(d, identified, unknown, p) ==
    [ d EXCEPT !.identified = identified, !.unknown = unknown,
               !.progress = Stamped(p) ]

\* the three writes of a flush in their order: save_results, save_results,
\* save_progress.  open(path, 'w') raises on a path of d.denied and leaves the
\* file as it is; the writes before it are made, those after it are not
Save(d, identified, unknown, p) ==
    IF "identified" \in d.denied
    THEN [ disk |-> d, progress |-> p, raised |-> TRUE ]
    ELSE IF "unknown" \in d.denied
    THEN [ disk |-> [ d EXCEPT !.identified = identified ],
           progress |-> p, raised |-> TRUE ]
    ELSE IF "progress" \in d.denied
    THEN [ disk |-> [ d EXCEPT !.identified = identified, !.unknown = unknown ],
           progress |-> Stamped(p), raised |-> TRUE ]
    ELSE [ disk |-> Flushed(d, identified, unknown, p),
           progress |-> Stamped(p), raised |-> FALSE ]

\* main, up to the loop: load the list, the tracker and the two stores; the
\* open of the candidate list is not guarded
Start ==
    /\ pc \in Ended \cup { "idle" }
    /\ Len(disk.identified) + Len(disk.unknown) <= MaxRestart
    /\ IF "needs_research" \in disk.denied
       THEN /\ pc' = "killed"
            /\ UNCHANGED << canisters, progress, identified_results, unknown_results,
                            i, pending, backend_calls, loaded >>
       ELSE /\ canisters' = disk.needs_research
            /\ progress' = [ load_progress(disk.progress)
                               EXCEPT !.total_canisters = Len(disk.needs_research) ]
            /\ identified_results' = disk.identified
            /\ unknown_results' = disk.unknown
            /\ i' = 0
            /\ pending' = NoPending
            /\ backend_calls' = << >>
            /\ loaded' = [ ids |-> Ids(disk.identified) \cup Ids(disk.unknown),
                           progress |-> load_progress(disk.progress) ]
            /\ pc' = "loop"
    /\ UNCHANGED << runner, world, sink, disk, errors, other_vars >>

\* `for i, canister in enumerate(canisters, 1)` and the read of its id
NextCandidate ==
    /\ pc = "loop"
    /\ IF i < Len(canisters)
       THEN /\ i' = i + 1
            /\ pc' = "research"
       ELSE /\ i' = i
            /\ pc' = "final"
    /\ pending' = NoPending
    /\ UNCHANGED << runner, world, sink, canisters, identified_results, unknown_results,
                    progress, disk, backend_calls, errors, loaded, other_vars >>

\* a mutant of Research: the classification depends on the position in the
\* list, candidates past the eighth are put down as unknown unprobed
Research_gives_up_late(r, canister_id, rank, ev) ==
    IF rank > 8
    THEN UnknownBranch(NewResult(canister_id, rank, query_candid(Failed)))
    ELSE IF r = "batch_research"
         THEN research_canister(canister_id, rank, ev)
         ELSE research_canister_all(canister_id, rank, ev)

\* the classifier of the runner
Research(r, canister_id, rank, ev) ==
    IF r = "batch_research"
    THEN research_canister(canister_id, rank, ev)
    ELSE research_canister_all(canister_id, rank, ev)

\* research_canister up to its set_project_backend call or its return
Probe ==
    /\ pc = "research"
    /\ pending' = Research(runner, canisters[i], i, Evidence(world, canisters[i]))
    /\ pc' = IF pending'.calls # << >> THEN "set_project" ELSE "append"
    /\ UNCHANGED << runner, world, sink, canisters, i, identified_results, unknown_results,
                    progress, disk, backend_calls, errors, loaded, other_vars >>

\* what a set_project_backend call may return: result.returncode == 0, or
\* False on a non-zero return code, a timeout or any other exception
SinkOutcomes == IF sink = "up" THEN { TRUE } ELSE BOOLEAN

\* a set_project call that was made, and what it returned
Made(call, ok) == [ canister_id |-> call.canister_id, label |-> call.label, ok |-> ok ]

\* the calls of a pass, with what each returned
SinkReturns(calls) ==
    { [ k \in 1..Len(calls) |-> Made(calls[k], oks[k]) ] :
        oks \in [ 1..Len(calls) -> SinkOutcomes ] }

\* a mutant of CallsMade: a failed call is made a second time
CallsMade_retry(call, ok) ==
    IF ok THEN << Made(call, ok) >> ELSE << Made(call, ok), Made(call, ok) >>

\* set_project_backend: one subprocess.run, no retry
CallsMade(call, ok) == << Made(call, ok) >>

\* a mutant of AfterSinkCall: a failed call drops the candidate
AfterSinkCall_skip_on_failure(ok) == IF ok THEN "append" ELSE "loop"

\* research_canister after set_project_backend: both branches of the `if`
\* return "identified", result
AfterSinkCall(ok) == "append"

\* set_project_backend: the call is made; whether it succeeds changes nothing
SetProject ==
    /\ pc = "set_project"
    /\ \E ok \in SinkOutcomes :
          /\ backend_calls' = backend_calls \o CallsMade(pending.calls[1], ok)
          /\ pc' = AfterSinkCall(ok)
    /\ UNCHANGED << runner, world, sink, canisters, i, identified_results, unknown_results,
                    progress, pending, disk, errors, loaded, other_vars >>

\* a mutant of Recorded: a result whose descriptor probe failed is dropped
Recorded_drops_degraded(status, result, identified, unknown) ==
    IF ~result.candid_available
    THEN [ identified |-> identified, unknown |-> unknown ]
    ELSE IF status = "identified"
         THEN [ identified |-> Append(identified, result), unknown |-> unknown ]
         ELSE [ identified |-> identified, unknown |-> Append(unknown, result) ]

\* main: `if status == "identified": identified_results.append(result)`,
\* `else: unknown_results.append(result)`
Recorded(status, result, identified, unknown) ==
    IF status = "identified"
    THEN [ identified |-> Append(identified, result), unknown |-> unknown ]
    ELSE [ identified |-> identified, unknown |-> Append(unknown, result) ]

\* `identified_results.append(result)` or `unknown_results.append(result)`
AppendResult ==
    /\ pc = "append"
    /\ identified_results' = Recorded(pending.status, pending.result,
                                      identified_results, unknown_results).identified
    /\ unknown_results' = Recorded(pending.status, pending.result,
                                   identified_results, unknown_results).unknown
    /\ pc' = "tally"
    /\ UNCHANGED << runner, world, sink, canisters, i, progress, pending, disk,
                    backend_calls, errors, loaded, other_vars >>

\* `progress["identified"] += 1` or `progress["unknown_documented"] += 1`
Tally ==
    /\ pc = "tally"
    /\ progress' = IF pending.status = "identified"
                   THEN [ progress EXCEPT !.identified = @ + 1 ]
                   ELSE [ progress EXCEPT !.unknown_documented = @ + 1 ]
    /\ pc' = "progress"
    /\ UNCHANGED << runner, world, sink, canisters, i, identified_results, unknown_results,
                    pending, disk, backend_calls, errors, loaded, other_vars >>

\* the three assignments to researched, last_canister_id and remaining
UpdateProgress ==
    /\ pc = "progress"
    /\ progress' = [ progress EXCEPT !.researched = @ + 1,
                                     !.last_canister_id = L(canisters[i]),
                                     !.remaining = Len(canisters) - i ]
    /\ pc' = "checkpoint"
    /\ UNCHANGED << runner, world, sink, canisters, i, identified_results, unknown_results,
                    pending, disk, backend_calls, errors, loaded, other_vars >>

\* `if i % K == 0:` the periodic save; then the sleep.  A save that raises is
\* caught by `except Exception` and the loop continues
Checkpoint ==
    /\ pc = "checkpoint"
    /\ IF i % SaveEvery(runner) = 0
       THEN /\ disk' = Save(disk, identified_results, unknown_results, progress).disk
            /\ progress' = Save(disk, identified_results, unknown_results, progress).progress
       ELSE /\ UNCHANGED << disk, progress >>
    /\ pc' = "loop"
    /\ UNCHANGED << runner, world, sink, canisters, i, identified_results, unknown_results,
                    pending, backend_calls, errors, loaded, other_vars >>

\* a mutant of UnexpectedError: the handler counts the candidate as researched
UnexpectedError_counts_candidate ==
    /\ pc = "research"
    /\ canisters[i] \in Flaky
    /\ errors < MaxErrors
    /\ errors' = errors + 1
    /\ progress' = [ progress EXCEPT !.researched = @ + 1,
                                     !.last_canister_id = L(canisters[i]) ]
    /\ pc' = "loop"
    /\ UNCHANGED << runner, world, sink, canisters, i, identified_results, unknown_results,
                    pending, disk, backend_calls, loaded, other_vars >>

\* `except Exception: continue`: research_canister raised an unexpected error
UnexpectedError ==
    /\ pc = "research"
    /\ canisters[i] \in Flaky
    /\ errors < MaxErrors
    /\ errors' = errors + 1
    /\ pc' = "loop"
    /\ UNCHANGED << runner, world, sink, canisters, i, identified_results, unknown_results,
                    progress, pending, disk, backend_calls, loaded, other_vars >>

\* "Final save" after the loop; nothing catches a save that raises
FinalSave ==
    /\ pc = "final"
    /\ disk' = Save(disk, identified_results, unknown_results, progress).disk
    /\ progress' = Save(disk, identified_results, unknown_results, progress).progress
    /\ pc' = IF Save(disk, identified_results, unknown_results, progress).raised
             THEN "killed" ELSE "done"
    /\ UNCHANGED << runner, world, sink, canisters, i, identified_results, unknown_results,
                    pending, backend_calls, errors, loaded, other_vars >>

\* KeyboardInterrupt raised inside the try block: `except KeyboardInterrupt`
\* saves the stores and the tracker; batch_research.py then exits,
\* research_all_unknowns.py breaks out of the loop to its final save
InterruptInTry ==
    /\ pc \in InTry
    /\ disk' = Save(disk, identified_results, unknown_results, progress).disk
    /\ progress' = Save(disk, identified_results, unknown_results, progress).progress
    /\ pc' = IF Save(disk, identified_results, unknown_results, progress).raised
             THEN "killed"
             ELSE IF runner = "batch_research" THEN "exited" ELSE "final"
    /\ UNCHANGED << runner, world, sink, canisters, i, identified_results, unknown_results,
                    pending, backend_calls, errors, loaded, other_vars >>

\* KeyboardInterrupt raised outside the try block (in the `for` statement, in
\* the read of canister['canister_id'], in the final save before its first
\* write): no handler, the process ends with the files as they are
InterruptOutsideTry ==
    /\ pc \in { "loop", "final" }
    /\ pc' = "killed"
    /\ UNCHANGED << runner, world, sink, canisters, i, identified_results, unknown_results,
                    progress, pending, disk, backend_calls, errors, loaded,
                    other_vars >>

-----------------------------------------------------------------------------
(* The scripts run between batch runs.  They read and write the files of   *)
(* batch_research.py (research_results2.json, research_results_unknown.json,*)
(* needs_research.json), not those of research_all_unknowns.py.            *)

\* the memory of an ended process is gone
Forget ==
    /\ pc' = "idle"
    /\ canisters' = << >>
    /\ i' = 0
    /\ identified_results' = << >>
    /\ unknown_results' = << >>
    /\ progress' = DefaultProgress
    /\ pending' = NoPending
    /\ loaded' = [ ids |-> {}, progress |-> DefaultProgress ]

\* identify_patterns.py: process_unknowns on the two store files
PatternPass ==
    /\ pc \in Ended \cup { "idle" }
    /\ runner = "batch_research"
    /\ LET out == process_unknowns(disk.identified, disk.unknown)
       IN  /\ out.calls # << >>
           /\ disk' = [ disk EXCEPT !.identified = out.identified,
                                    !.unknown = out.unknown ]
           /\ backend_calls' \in SinkReturns(out.calls)
    /\ Forget
    /\ UNCHANGED << runner, world, sink, errors, other_vars >>

\* load_researched.py __main__: rewrite needs_research.json
LoadResearched ==
    /\ pc \in Ended \cup { "idle" }
    /\ runner = "batch_research"
    /\ LET list == needs_research(UNIVERSE,
                       load_researched(RESEARCH_RESULTS, disk.identified, disk.unknown))
       IN  /\ list # disk.needs_research
           /\ disk' = [ disk EXCEPT !.needs_research = list ]
    /\ backend_calls' = << >>
    /\ Forget
    /\ UNCHANGED << runner, world, sink, errors, other_vars >>

Next ==
    \/ Start
    \/ NextCandidate
    \/ Probe
    \/ SetProject
    \/ AppendResult
    \/ Tally
    \/ UpdateProgress
    \/ Checkpoint
    \/ UnexpectedError
    \/ FinalSave
    \/ InterruptInTry
    \/ InterruptOutsideTry
    \/ PatternPass
    \/ LoadResearched

Spec == Init /\ [][Next]_vars

-----------------------------------------------------------------------------
(* One first run of a batch runner, and the pattern pass after it, with a  *)
(* Label Sink whose calls may fail.                                        *)

SinkInit ==
    /\ runner \in Runners
    /\ world \in Worlds
    /\ sink = "flaky"
    /\ BatchVarsInit
    /\ OtherVarsInit

\* main started with no file of an earlier run
FirstStart ==
    /\ disk.progress = NoFile
    /\ disk.identified = << >>
    /\ disk.unknown = << >>
    /\ Start

SinkNext ==
    \/ FirstStart
    \/ NextCandidate
    \/ Probe
    \/ SetProject
    \/ AppendResult
    \/ Tally
    \/ UpdateProgress
    \/ Checkpoint
    \/ UnexpectedError
    \/ FinalSave
    \/ InterruptInTry
    \/ InterruptOutsideTry
    \/ PatternPass

SpecSink == SinkInit /\ [][SinkNext]_vars

-----------------------------------------------------------------------------
(* One first run of a batch runner that cannot read its candidate list or  *)
(* cannot open some of its output paths for writing.                       *)

DeniedSets ==
    { { "needs_research" } } \cup (SUBSET { "identified", "unknown", "progress" } \ { {} })

FatalInit ==
    /\ runner \in Runners
    /\ world \in Worlds
    /\ sink = "up"
    /\ BatchVarsInitButDisk
    /\ disk \in { [ InitialDisk EXCEPT !.denied = D ] : D \in DeniedSets }
    /\ OtherVarsInit

FatalNext ==
    \/ FirstStart
    \/ NextCandidate
    \/ Probe
    \/ SetProject
    \/ AppendResult
    \/ Tally
    \/ UpdateProgress
    \/ Checkpoint
    \/ UnexpectedError
    \/ FinalSave
    \/ InterruptInTry
    \/ InterruptOutsideTry

SpecFatal == FatalInit /\ [][FatalNext]_vars

-----------------------------------------------------------------------------
(* The classifiers alone: one evidence bundle, classified once, and for    *)
(* batch_research.py then taken through the pattern pass.                  *)

Classifiers == { "batch_research", "research_all_unknowns", "smart_batch_research",
                 "research_unknowns_batch" }

Texts == { T_plain, T_asset2, T_asset3, T_dex, T_nft, T_one, T_empty, T_pool }

Bundles ==
    { Ev(c, n, s, l, ln, ls) :
        c \in { Failed, TimedOut } \cup { Reply(t) : t \in Texts },
        n \in { Reply(N_tok), Reply(S_empty), Failed },
        s \in { Reply(S_xODIN), Reply(S_ckBTC), Reply(S_ckODIN), Reply(S_ABC),
                Reply(S_empty), Failed, TimedOut },
        l \in { Failed, Reply(LEDGER) },
        ln \in { Reply(N_tok), Failed },
        ls \in { Reply(S_ICP), Reply(S_empty), Failed } }

\* what a classifier returned, in one shape
Verdict(stage, status, result, calls) ==
    [ stage |-> stage, status |-> status, project |-> result.project,
      category |-> result.category, reason |-> result.reason,
      result |-> result, calls |-> calls ]

\* one call of the research_canister of the script
Classified(r, ev) ==
    IF r = "smart_batch_research"
    THEN LET out == smart_research_canister("c01", ev)
         IN  Verdict("classified",
                     IF Truthy(out.result.project) THEN "identified" ELSE "unknown",
                     out.result, out.calls)
    ELSE IF r = "research_unknowns_batch"
    THEN LET out == review_one("c01", ev)
         IN  Verdict("classified",
                     IF Truthy(out.result.project) THEN "identified" ELSE "unknown",
                     out.result, out.calls)
    ELSE LET out == Research(r, "c01", 1, ev)
         IN  Verdict("classified", out.status, out.result, out.calls)

ClassifyInit ==
    /\ runner \in Classifiers
    /\ world = 0
    /\ sink = "up"
    /\ BatchVarsInit
    /\ bundle \in Bundles
    /\ verdict = NoVerdict
    /\ inputs = NoInputs
    /\ merged = NoMerged
    /\ files = NoFiles
    /\ remaining = NoRemaining

batch_vars == << pc, canisters, i, identified_results, unknown_results, progress,
                 pending, disk, backend_calls, errors, loaded >>

loop_vars == << canisters, i, progress, pending, disk, backend_calls, errors, loaded >>

Classify ==
    /\ verdict.status = "none"
    /\ verdict' = Classified(runner, bundle)
    /\ UNCHANGED << runner, world, sink, batch_vars, bundle, inputs, merged, files, remaining >>

\* process_unknowns on an Unknown store that holds the one result of
\* batch_research.py
PatternPassOne ==
    /\ runner = "batch_research"
    /\ verdict.status = "unknown"
    /\ verdict.stage = "classified"
    /\ LET out == process_unknowns(<< >>, << verdict.result >>)
       IN  verdict' = IF out.identified # << >>
                      THEN Verdict("pattern_pass", "identified", out.identified[1], out.calls)
                      ELSE Verdict("pattern_pass", "unknown", out.unknown[1], out.calls)
    /\ UNCHANGED << runner, world, sink, batch_vars, bundle, inputs, merged, files, remaining >>

\* main of batch_research.py and research_all_unknowns.py: the returned
\* result is appended to the store of its status
Record ==
    /\ runner \in Runners
    /\ pc = "idle"
    /\ verdict.status # "none"
    /\ verdict.stage = "classified"
    /\ identified_results' = Recorded(verdict.status, verdict.result,
                                      identified_results, unknown_results).identified
    /\ unknown_results' = Recorded(verdict.status, verdict.result,
                                   identified_results, unknown_results).unknown
    /\ pc' = "tally"
    /\ UNCHANGED << runner, world, sink, loop_vars, bundle, verdict, inputs, merged,
                    files, remaining >>

ClassifyNext == Classify \/ Record \/ PatternPassOne

SpecClassify == ClassifyInit /\ [][ClassifyNext]_vars

-----------------------------------------------------------------------------
(* The merge of consolidate_results.py.  A Python dict is the sequence of  *)
(* its items in insertion order.                                           *)

Keys(d) == { d[k].key : k \in 1..Len(d) }

Get(d, key) == (CHOOSE k \in 1..Len(d) : d[k].key = key)

Value(d, key) == d[Get(d, key)].value

\* d[key] = value: an existing key keeps its place
Put(d, key, value) ==
    IF key \in Keys(d)
    THEN [ d EXCEPT ![Get(d, key)] = [ key |-> key, value |-> value ] ]
    ELSE Append(d, [ key |-> key, value |-> value ])

\* {**a, **b}
RECURSIVE Update(_, _)
Update(a, b) ==
    IF b = << >> THEN a
    ELSE Update(Put(a, Head(b).key, Head(b).value), Tail(b))

UNKNOWN == L("Unknown")

UNKNOWN_TOKEN == L("Unknown Token")

\* load_original_research: the entry of one `| done |` row of RESEARCH_PLAN.md;
\* row.token is the match of 'Token: (.+?) \((.+?)\)' in the notes, or None
OriginalEntry(row) ==
    IF row.token # None
    THEN [ project |-> row.project, type |-> "token",
           token_name |-> row.token[1], token_symbol |-> row.token[2],
           notes |-> row.notes ]
    ELSE [ project |-> row.project,
           type |-> IF row.project = UNKNOWN THEN "backend" ELSE "other",
           token_name |-> None, token_symbol |-> None,
           notes |-> row.notes ]

\* consolidate_results.py: load_original_research, over the rows of the plan
RECURSIVE load_original_research(_)
load_original_research(rows) ==
    IF rows = << >> THEN << >>
    ELSE LET rest == load_original_research(SubSeq(rows, 1, Len(rows) - 1))
             row == rows[Len(rows)]
         IN  IF row.status = "done"
             THEN Put(rest, row.canister_id, OriginalEntry(row))
             ELSE rest

\* load_new_research: the entry of one item of research_results.json
NewEntry(item) ==
    [ project |-> item.project,
      type |-> IF item.is_token THEN "token" ELSE "backend",
      token_name |-> item.token_name, token_symbol |-> item.token_symbol,
      notes |-> item.notes ]

\* consolidate_results.py: load_new_research, over the items of the file
RECURSIVE load_new_research(_)
load_new_research(items) ==
    IF items = << >> THEN << >>
    ELSE Put(load_new_research(SubSeq(items, 1, Len(items) - 1)),
             items[Len(items)].canister_id, NewEntry(items[Len(items)]))

\* a mutant of all_canisters: the first store wins an id collision
all_canisters_first_wins(original, new) == Update(new, original)

\* consolidate_results.py main: `all_canisters = {**original, **new}`
all_canisters(original, new) == Update(original, new)

EmptyMappings ==
    [ by_canister |-> << >>, icrc1_tokens |-> << >>,
      non_token_canisters |-> << >>, unknown |-> << >> ]

\* the body of the loop of create_project_mappings for one item
MapOne(m, cid, data) ==
    LET m1 == IF data.project \notin { UNKNOWN, UNKNOWN_TOKEN }
              THEN [ m EXCEPT !.by_canister = Put(@, cid, data.project) ]
              ELSE m
        m2 == IF data.type = "token" /\ Truthy(data.token_name)
              THEN [ m1 EXCEPT !.icrc1_tokens =
                         Put(@, cid, [ name |-> data.token_name,
                                       symbol |-> data.token_symbol,
                                       project |-> IF data.project # UNKNOWN_TOKEN
                                                   THEN data.project ELSE None ]) ]
              ELSE m1
    IN  IF data.type # "token"
        THEN IF data.project = UNKNOWN
             THEN [ m2 EXCEPT !.unknown = Append(@, cid) ]
             ELSE [ m2 EXCEPT !.non_token_canisters = Append(@, cid) ]
        ELSE m2

\* consolidate_results.py: create_project_mappings
RECURSIVE create_project_mappings(_)
create_project_mappings(all) ==
    IF all = << >> THEN EmptyMappings
    ELSE MapOne(create_project_mappings(SubSeq(all, 1, Len(all) - 1)),
                all[Len(all)].key, all[Len(all)].value)

\* rows of the plan and items of research_results.json in one input store
MaxRows == 2

MergeIds == { "A", "B" }

PlanRows ==
    { [ status |-> st, canister_id |-> id, project |-> p, token |-> None,
        notes |-> L("plan") ] :
        st \in { "done", "pending" }, id \in MergeIds,
        p \in { L("ICPSwap"), UNKNOWN } }
    \cup
    { [ status |-> "done", canister_id |-> "A", project |-> p,
        token |-> << N_tok, S_ABC >>, notes |-> L("Token: Tok (ABC)") ] :
        p \in { L("ODIN.fun"), UNKNOWN_TOKEN } }

ResearchItems ==
    { [ canister_id |-> id, project |-> p, is_token |-> FALSE,
        token_name |-> None, token_symbol |-> None, notes |-> L("new") ] :
        id \in MergeIds, p \in { L("Sonic"), UNKNOWN } }
    \cup
    { [ canister_id |-> "A", project |-> UNKNOWN_TOKEN, is_token |-> TRUE,
        token_name |-> N_tok, token_symbol |-> S_ABC, notes |-> L("new") ] }

SeqsUpTo(S, n) == UNION { [ 1..k -> S ] : k \in 0..n }

MergeInit ==
    /\ runner = "consolidate_results"
    /\ world = 0
    /\ sink = "up"
    /\ BatchVarsInit
    /\ bundle = NoBundle
    /\ verdict = NoVerdict
    /\ inputs \in [ original : SeqsUpTo(PlanRows, MaxRows),
                    new : SeqsUpTo(ResearchItems, MaxRows) ]
    /\ merged = NoMerged
    /\ files = NoFiles
    /\ remaining = NoRemaining

\* a mutant of WriteMappings: project_mappings.json opened in append mode, so
\* the list of unknown ids of an earlier run stays in front of the new one
WriteMappings_append(previous, mappings) ==
    [ mappings EXCEPT !.unknown = previous.unknown \o @ ]

\* `with open('project_mappings.json', 'w')` and json.dump: the file after the
\* write, given the file of an earlier run
WriteMappings(previous, mappings) == mappings

\* the scripts of the merge are run at most twice over the same stores
Reruns == { 0, 1 }

\* consolidate_results.py: main, up to project_mappings.json
Consolidate ==
    /\ merged.runs \in Reruns
    /\ LET all == all_canisters(load_original_research(inputs.original),
                                load_new_research(inputs.new))
           previous == IF merged.done THEN merged.mappings ELSE EmptyMappings
           view == [ all_canisters |-> all,
                     mappings |-> WriteMappings(previous, create_project_mappings(all)) ]
       IN  merged' = [ done |-> TRUE, runs |-> merged.runs + 1,
                       all_canisters |-> view.all_canisters,
                       mappings |-> view.mappings,
                       first |-> IF merged.done THEN merged.first ELSE view ]
    /\ UNCHANGED << runner, world, sink, batch_vars, bundle, verdict, inputs, files, remaining >>

\* find_unresearched.py over the ids of the merge, with research_results.json
\* the one store file present
MergeFindUnresearched ==
    /\ remaining.runs \in Reruns
    /\ LET unresearched == truly_unresearched(MergeIds,
                                load_researched(inputs.new, << >>, << >>))
       IN  remaining' = [ remaining EXCEPT
                            !.truly_unresearched = unresearched,
                            !.runs = @ + 1,
                            !.first = IF remaining.runs = 0 THEN unresearched ELSE @ ]
    /\ UNCHANGED << runner, world, sink, batch_vars, bundle, verdict, inputs, merged, files >>

MergeNext == Consolidate \/ MergeFindUnresearched

SpecMerge == MergeInit /\ [][MergeNext]_vars

-----------------------------------------------------------------------------
(* The resume scripts alone, over stores and counters of any content.      *)

ResumeUniverse == << "A", "B", "C", "D" >>

\* the stores a resume script may find: entries are read for their id only
StoresOf(S) == { << >> } \cup { << [ canister_id |-> x ] >> : x \in S }
               \cup { << [ canister_id |-> x ], [ canister_id |-> y ] >> : x, y \in S }

\* researched counters a stale progress file may hold
MaxStaleCount == 2

ResumeInit ==
    /\ runner \in { "load_researched", "find_unresearched" }
    /\ world = 0
    /\ sink = "up"
    /\ BatchVarsInit
    /\ OtherVarsInitButFiles
    /\ files \in [ research_results : StoresOf({ "A", "D" }),
                   research_results2 : StoresOf({ "A", "B" }),
                   research_results_unknown : StoresOf({ "B", "C" }),
                   researched_counter : 0..MaxStaleCount ]
    /\ remaining = NoRemaining

\* load_researched.py __main__
RunLoadResearched ==
    /\ runner = "load_researched"
    /\ remaining = NoRemaining
    /\ remaining' = [ remaining EXCEPT !.needs_research =
           needs_research(ResumeUniverse,
               load_researched(files.research_results, files.research_results2,
                               files.research_results_unknown)) ]
    /\ UNCHANGED << runner, world, sink, batch_vars, bundle, verdict, inputs, merged, files >>

\* find_unresearched.py
RunFindUnresearched ==
    /\ runner = "find_unresearched"
    /\ remaining = NoRemaining
    /\ remaining' = [ remaining EXCEPT !.truly_unresearched =
           truly_unresearched(SeqToSet(ResumeUniverse),
               load_researched(files.research_results, files.research_results2,
                               files.research_results_unknown)) ]
    /\ UNCHANGED << runner, world, sink, batch_vars, bundle, verdict, inputs, merged, files >>

ResumeNext == RunLoadResearched \/ RunFindUnresearched

SpecResume == ResumeInit /\ [][ResumeNext]_vars

-----------------------------------------------------------------------------
(* Properties of the Result Stores *)

\* the Identified store: the list the loop holds and the file it is saved to
IdentifiedStores == { identified_results, disk.identified }

\* the Unknown store: the list the loop holds and the file it is saved to
UnknownStores == { unknown_results, disk.unknown }

IsNull(v) == v = None \/ v = Absent

\* the reason strings of the scripts, under the names the specification gives
\* the enum values
ReasonEnum(reason) ==
    IF reason = L("token_unknown_project") THEN "token_unknown_project"
    ELSE IF reason = L("index_ledger_unknown") THEN "index_unresolved"
    ELSE IF reason = L("candid_unrecognizable") THEN "descriptor_unrecognized"
    ELSE IF reason = L("no_candid_metadata") THEN "no_descriptor"
    ELSE "not a reason"

\* C1: after any sequence of loop steps, checkpoint flushes, interrupts,
\* restarts and pattern-promotion passes, every record of the Identified store
\* (in memory and on disk) has a non-null project and no non-null reason
C1_IdentifiedHaveProject ==
    \A store \in IdentifiedStores : \A k \in 1..Len(store) :
        /\ ~IsNull(store[k].project)
        /\ IsNull(store[k].reason)

\* C1 witness: after a restart and a flush, the Identified file holds a record
\* promoted by the pattern pass next to one the loop identified
C1_Witness ==
    /\ pc \in Ended
    /\ loaded.ids # {}
    /\ \E k, m \in 1..Len(disk.identified) :
          /\ disk.identified[k].identified_by = L("candid_pattern_matching")
          /\ disk.identified[m].identified_by = Absent
          /\ disk.identified[m].is_token

\* C2: after any sequence of loop steps, flushes, restarts and
\* pattern-promotion passes, every record of the Unknown store (in memory and
\* on disk) has a null project and a reason that is one of the four enum values
C2_UnknownHaveReason ==
    \A store \in UnknownStores : \A k \in 1..Len(store) :
        /\ store[k].project = None
        /\ ReasonEnum(store[k].reason) \in
              { "token_unknown_project", "index_unresolved",
                "descriptor_unrecognized", "no_descriptor" }

\* C2 witness: a pattern pass has promoted one record out of the Unknown file,
\* and a later run has flushed an index_ledger_unknown record into it
C2_Witness ==
    /\ pc \in Ended
    /\ \E k \in 1..Len(disk.identified) :
          disk.identified[k].identified_by = L("candid_pattern_matching")
    /\ \E k \in 1..Len(disk.unknown) :
          disk.unknown[k].reason = L("index_ledger_unknown")

-----------------------------------------------------------------------------
(* Properties of the classifiers *)

\* the symbol a classifier reads from the token probe of the bundle
TokenSymbolSeen ==
    IF runner = "smart_batch_research"
    THEN smart_query_icrc1(bundle.name, bundle.symbol).symbol
    ELSE IF query_icrc1(bundle.name, bundle.symbol).is_token
         THEN query_icrc1(bundle.name, bundle.symbol).symbol
         ELSE None

\* the token-pattern outcome for a symbol: the suffix rule, then the prefix rule
TokenPatternProject(symbol) ==
    IF ~Truthy(symbol) THEN None
    ELSE IF Len(symbol) >= 5 /\ SubSeq(symbol, Len(symbol) - 4, Len(symbol)) = ODIN_SUFFIX
    THEN L("ODIN.fun")
    ELSE IF Len(symbol) >= 2 /\ SubSeq(symbol, 1, 2) = CK_PREFIX
    THEN symbol \o L(" Ledger")
    ELSE None

\* the descriptor of the bundle holds at least two markers of some rule of
\* CANDID_PATTERNS
DescriptorReachesRule ==
    /\ bundle.candid.kind = "reply"
    /\ \E k \in 1..Len(CANDID_PATTERNS) :
          Cardinality({ p \in SeqToSet(CANDID_PATTERNS[k].patterns) :
                            Occurs(bundle.candid.value, p) }) >= 2

\* the projects the descriptor rules of the scripts can give
DescriptorProjects ==
    { CANDID_PATTERNS[k].project : k \in 1..Len(CANDID_PATTERNS) }
    \cup { L("Asset Canister"), L("Orbit Station"), L("Omnity"), L("OmniBTC"),
           L("ICRC-1 Archive"), L("EVM RPC"), L("Bitcoin Runes Etching") }

\* C3: priority law.  For every evidence bundle in which the candidate is a
\* token whose symbol matches a token pattern and whose descriptor holds at
\* least two markers of some descriptor rule, batch_research.py and
\* smart_batch_research.py return the token-pattern outcome (and label the
\* candidate with it), never the descriptor-rule outcome
C3_TokenPatternBeatsDescriptor ==
    ( /\ runner \in { "batch_research", "smart_batch_research" }
      /\ verdict.status # "none"
      /\ verdict.stage = "classified"
      /\ TokenPatternProject(TokenSymbolSeen) # None
      /\ DescriptorReachesRule )
    => /\ verdict.status = "identified"
       /\ verdict.project = TokenPatternProject(TokenSymbolSeen)
       /\ verdict.project \notin DescriptorProjects
       /\ verdict.calls = << SinkCall("c01", TokenPatternProject(TokenSymbolSeen)) >>

\* C3 witness: smart_batch_research.py has classified a ckBTC token whose
\* descriptor holds the three asset-canister markers its Candid rule asks for
C3_Witness ==
    /\ runner = "smart_batch_research"
    /\ verdict.status = "identified"
    /\ bundle.symbol = Reply(S_ckBTC)
    /\ bundle.candid = Reply(T_asset3)
    /\ identify_by_candid(T_asset3).project = L("Asset Canister")

\* C12: the Label Sink is never called for a candidate whose classification
\* result is Unknown: every set_project call of every runner is for a
\* candidate classified Identified
C12_NoSinkCallForUnknown ==
    (verdict.status = "unknown" /\ verdict.stage = "classified") => verdict.calls = << >>

\* the probes of a bundle that failed or timed out
FailedProbes(ev) ==
    { f \in { "candid", "name", "symbol", "ledger", "ledger_name", "ledger_symbol" } :
        ev[f].kind # "reply" }

\* C16: a failure or timeout of any probe never aborts the candidate: for
\* every combination of probe outcomes research_canister returns Identified
\* or Unknown, computed from the probes that did answer, and main appends
\* the result to the store of that status
C16_ProbeFailureNeverFatal ==
    (runner \in Runners /\ verdict.status # "none" /\ verdict.stage = "classified") =>
        /\ verdict.status \in { "identified", "unknown" }
        /\ verdict.status = "identified" => Truthy(verdict.project)
        /\ verdict.status = "unknown" => ReasonEnum(verdict.reason) # "not a reason"
        /\ verdict.result.candid_available = (bundle.candid.kind = "reply")
        /\ query_icrc1(bundle.name, bundle.symbol).is_token =>
               /\ verdict.result.token_symbol = bundle.symbol.value
               /\ verdict.result.token_name = bundle.name.value
        /\ ( /\ ~query_icrc1(bundle.name, bundle.symbol).is_token
             /\ bundle.ledger.kind = "reply"
             /\ query_icrc1(bundle.ledger_name, bundle.ledger_symbol).is_token ) =>
               /\ verdict.status = "identified"
               /\ verdict.project = bundle.ledger_symbol.value \o L(" Index")
        /\ Cardinality(FailedProbes(bundle)) = 6 =>
               /\ verdict.status = "unknown"
               /\ verdict.reason = L("no_candid_metadata")
        /\ pc = "tally" =>
               IF verdict.status = "identified"
               THEN identified_results = << verdict.result >> /\ unknown_results = << >>
               ELSE unknown_results = << verdict.result >> /\ identified_results = << >>

\* C16 witness: the descriptor probe timed out and the ledger probe failed;
\* the token probes answered ckBTC, and the result is in the Identified store
C16_Witness ==
    /\ runner = "batch_research"
    /\ bundle.candid = TimedOut
    /\ bundle.ledger = Failed
    /\ bundle.symbol = Reply(S_ckBTC)
    /\ pc = "tally"
    /\ Len(identified_results) = 1
    /\ identified_results[1].project = S_ckBTC \o L(" Ledger")
    /\ ~identified_results[1].candid_available

\* the classifier took the candidate for a token
IsTokenOf(r, result) ==
    IF r = "smart_batch_research" THEN result.type = L("token") ELSE result.is_token

\* the query succeeded and returned a non-empty value
NonEmptyReply(out) == out.kind = "reply" /\ out.value # << >>

\* C17: the token probe reports is_token = true if and only if both the name
\* query and the symbol query succeeded and both returned non-empty values
C17_IsTokenIffBothNonEmpty ==
    ( /\ runner \in Runners \cup { "smart_batch_research" }
      /\ verdict.status # "none"
      /\ verdict.stage = "classified" ) =>
        ( IsTokenOf(runner, verdict.result)
            <=> (NonEmptyReply(bundle.name) /\ NonEmptyReply(bundle.symbol)) )

\* C18: in every batch runner a token whose symbol ends with the ODIN suffix
\* is classified Identified with project "ODIN.fun" and category token, also
\* when the symbol starts with "ck": the suffix rule is checked first
C18_OdinSuffixFirst ==
    ( /\ runner \in Runners \cup { "smart_batch_research" }
      /\ verdict.status # "none"
      /\ verdict.stage = "classified"
      /\ NonEmptyReply(bundle.name)
      /\ NonEmptyReply(bundle.symbol)
      /\ endswith(bundle.symbol.value, ODIN_SUFFIX) ) =>
        /\ verdict.status = "identified"
        /\ verdict.project = L("ODIN.fun")
        /\ IF runner = "smart_batch_research"
           THEN verdict.result.type = L("token")
           ELSE verdict.category = L("token")

\* a token, by the token probe of the runner, whose symbol starts with "ck"
\* and does not end with the ODIN suffix
CkToken ==
    /\ runner \in Runners
    /\ verdict.status # "none"
    /\ verdict.stage = "classified"
    /\ query_icrc1(bundle.name, bundle.symbol).is_token
    /\ startswith(bundle.symbol.value, CK_PREFIX)
    /\ ~endswith(bundle.symbol.value, ODIN_SUFFIX)

\* C19: a token whose symbol starts with "ck" and does not end with the ODIN
\* suffix is classified Identified with project "{symbol} Ledger" and
\* category token
C19_CkPrefixLedgerCategoryToken ==
    CkToken =>
        /\ verdict.status = "identified"
        /\ verdict.project = bundle.symbol.value \o L(" Ledger")
        /\ verdict.category = L("token")

\* C19 as amended: such a token is classified Identified with project
\* "{symbol} Ledger" and category nns_infrastructure, and that label is the
\* one sent to the Label Sink
C19_CkPrefixLedgerInfrastructure ==
    CkToken =>
        /\ verdict.status = "identified"
        /\ verdict.project = bundle.symbol.value \o L(" Ledger")
        /\ verdict.category = L("nns_infrastructure")
        /\ verdict.calls = << SinkCall("c01", bundle.symbol.value \o L(" Ledger")) >>

\* C19 witness: batch_research.py has classified the token ckBTC
C19_Witness ==
    /\ runner = "batch_research"
    /\ bundle.name = Reply(N_tok)
    /\ bundle.symbol = Reply(S_ckBTC)
    /\ verdict.status = "identified"
    /\ verdict.stage = "classified"
    /\ verdict.project = S_ckBTC \o L(" Ledger")
    /\ verdict.category = L("nns_infrastructure")

\* C20: a candidate that is a token whose symbol matches no suffix or prefix
\* pattern is classified Unknown with reason token_unknown_project and a
\* null project, its name and symbol recorded; it is never Identified
C20_UnmatchedTokenIsUnknown ==
    ( /\ runner \in Classifiers
      /\ verdict.status # "none"
      /\ verdict.stage = "classified"
      /\ NonEmptyReply(bundle.name)
      /\ NonEmptyReply(bundle.symbol)
      /\ ~endswith(bundle.symbol.value, ODIN_SUFFIX)
      /\ ~startswith(bundle.symbol.value, CK_PREFIX) ) =>
        /\ verdict.status = "unknown"
        /\ verdict.project = None
        /\ verdict.reason = L("token_unknown_project")
        /\ verdict.result.token_name = bundle.name.value
        /\ verdict.result.token_symbol = bundle.symbol.value

\* the token probe of the runner did not report a token
NotToken == ~query_icrc1(bundle.name, bundle.symbol).is_token

\* the ledger_id call answered a principal
HasLedgerReference == query_index(bundle.ledger).is_index

\* the token probe reported the referenced ledger to be a token
LedgerIsToken == query_icrc1(bundle.ledger_name, bundle.ledger_symbol).is_token

\* a batch runner has classified the bundle
RunnerClassified ==
    /\ runner \in Runners
    /\ verdict.status # "none"
    /\ verdict.stage = "classified"

\* C21: a candidate that is not a token and whose ledger reference resolves
\* to a token with symbol S is classified Identified with project "S Index"
\* and category nns_infrastructure, whatever its descriptor contains
C21_IndexOfKnownLedger ==
    (RunnerClassified /\ NotToken /\ HasLedgerReference /\ LedgerIsToken) =>
        /\ verdict.status = "identified"
        /\ verdict.project = bundle.ledger_symbol.value \o L(" Index")
        /\ verdict.category = L("nns_infrastructure")
        /\ verdict.reason = Absent
        /\ verdict.result.ledger_id = bundle.ledger.value

\* C21 witness: the descriptor holds three markers of the asset rule, the
\* token probe failed and the ledger is the ICP token: "ICP Index"
C21_Witness ==
    /\ runner = "batch_research"
    /\ bundle.candid = Reply(T_asset3)
    /\ bundle.name = Failed
    /\ bundle.ledger = Reply(LEDGER)
    /\ bundle.ledger_name = Reply(N_tok)
    /\ bundle.ledger_symbol = Reply(S_ICP)
    /\ verdict.status = "identified"
    /\ verdict.stage = "classified"
    /\ verdict.project = S_ICP \o L(" Index")

\* a script with an index step has classified a bundle in which its token
\* probe found no token and its ledger_id call answered, while its token probe
\* of the referenced ledger found no token
UnresolvedIndex ==
    /\ verdict.status # "none"
    /\ verdict.stage = "classified"
    /\ \/ /\ runner \in Runners
          /\ NotToken /\ HasLedgerReference /\ ~LedgerIsToken
       \/ /\ runner = "research_unknowns_batch"
          /\ check_icrc1_token(bundle.name, bundle.symbol) = None
          /\ Truthy(check_ledger_id(bundle.ledger))
          /\ check_icrc1_token(bundle.ledger_name, bundle.ledger_symbol) = None

\* C22: a candidate that is not a token and has a ledger reference that does
\* not resolve to a token is classified Unknown with reason index_unresolved
\* and the ledger id recorded; classification stops there and never falls
\* through to the descriptor rules or to the no-descriptor reason
C22_UnresolvedIndexStops ==
    UnresolvedIndex =>
        /\ verdict.status = "unknown"
        /\ verdict.project = None
        /\ ReasonEnum(verdict.reason) = "index_unresolved"
        /\ verdict.result.ledger_id = bundle.ledger.value

\* the rules of CANDID_PATTERNS of which the descriptor of the bundle holds at
\* least two markers
RulesReached ==
    { k \in 1..Len(CANDID_PATTERNS) :
        /\ bundle.candid.kind = "reply"
        /\ Cardinality({ p \in SeqToSet(CANDID_PATTERNS[k].patterns) :
                             Occurs(bundle.candid.value, p) }) >= 2 }

\* batch_research.py and then the pattern pass have classified the bundle
PipelineClassified ==
    /\ runner = "batch_research"
    /\ verdict.status # "none"
    /\ verdict.stage = "pattern_pass"

\* C23: a candidate with no token and no ledger-reference evidence whose
\* descriptor text holds at least two markers of some rule is classified
\* Identified with that rule's project and category by the pipeline of
\* batch_research.py and the pattern pass; two markers are enough
C23_TwoMarkersIdentify ==
    (PipelineClassified /\ NotToken /\ ~HasLedgerReference /\ RulesReached # {}) =>
        /\ verdict.status = "identified"
        /\ \E k \in RulesReached :
              /\ verdict.project = CANDID_PATTERNS[k].project
              /\ verdict.category = CANDID_PATTERNS[k].category
        /\ verdict.reason = Absent
        /\ verdict.calls = << SinkCall("c01", verdict.project) >>
        /\ bundle.candid.value = T_asset2 => verdict.project = L("Asset Canister")

\* C23 witness: a descriptor that holds CreateAssetArguments and BatchId and
\* no third marker, no token and no ledger reference: "Asset Canister"
C23_Witness ==
    /\ PipelineClassified
    /\ bundle.candid = Reply(T_asset2)
    /\ bundle.name = Failed
    /\ bundle.symbol = Failed
    /\ bundle.ledger = Failed
    /\ verdict.status = "identified"
    /\ verdict.project = L("Asset Canister")
    /\ verdict.category = L("infrastructure")

\* a bundle without token evidence, without ledger reference and without a
\* descriptor rule of the script reaching its threshold, classified
NoEvidenceClassified ==
    /\ verdict.status # "none"
    /\ \/ /\ runner = "batch_research"
          /\ NotToken /\ ~HasLedgerReference /\ RulesReached = {}
       \/ /\ runner = "smart_batch_research"
          /\ verdict.stage = "classified"
          /\ ~Truthy(smart_query_icrc1(bundle.name, bundle.symbol).symbol)
          /\ ~Truthy(query_ledger_id(bundle.ledger))
          /\ ~Truthy(identify_by_candid(smart_query_candid(bundle.candid)).project)

\* C24: for a candidate with no token, no ledger reference and no descriptor
\* rule reaching its threshold, the result is Unknown with reason
\* descriptor_unrecognized exactly when the descriptor probe succeeded and
\* with reason no_descriptor exactly when it did not
C24_ReasonFollowsDescriptorProbe ==
    NoEvidenceClassified =>
        /\ verdict.status = "unknown"
        /\ ReasonEnum(verdict.reason)
             = IF bundle.candid.kind = "reply" THEN "descriptor_unrecognized"
               ELSE "no_descriptor"

\* the number of markers of rule k that the descriptor of the bundle holds
MarkersHeld(k) ==
    Cardinality({ p \in SeqToSet(CANDID_PATTERNS[k].patterns) :
                      Occurs(bundle.candid.value, p) })

\* the first rule, in the declared order of the table, that is reached
FirstRuleReached == CHOOSE k \in RulesReached : \A j \in RulesReached : k <= j

\* C26: the descriptor rules are evaluated in the declared order of the
\* pattern table and the first rule with two markers in the text wins, also
\* when a later rule holds more markers
C26_FirstRuleInTableOrderWins ==
    (PipelineClassified /\ RulesReached # {}) =>
        /\ verdict.status = "identified"
        /\ verdict.project = CANDID_PATTERNS[FirstRuleReached].project
        /\ verdict.category = CANDID_PATTERNS[FirstRuleReached].category
        /\ verdict.result.notes = CANDID_PATTERNS[FirstRuleReached].notes
        /\ verdict.result.identified_by = L("candid_pattern_matching")

\* C26 witness: the descriptor holds two markers of ICPSwap and three of
\* Sonic, which comes later in the table: "ICPSwap"
C26_Witness ==
    /\ PipelineClassified
    /\ bundle.candid = Reply(T_dex)
    /\ Cardinality(RulesReached) = 2
    /\ \E k \in RulesReached : MarkersHeld(k) > MarkersHeld(FirstRuleReached)
    /\ verdict.status = "identified"
    /\ verdict.project = L("ICPSwap")

-----------------------------------------------------------------------------
(* Properties of the batch loop *)

\* C4: a restarted run skips the candidates whose id is in a store it loaded:
\* no such candidate is probed, sent to the Label Sink or appended again
C4_RestartSkipsStored ==
    pc \in { "research", "set_project", "append" } => canisters[i] \notin loaded.ids

\* records the loop holds that the files do not
Unflushed ==
    (Len(identified_results) + Len(unknown_results))
    - (Len(disk.identified) + Len(disk.unknown))

\* C6: in every tracker the loop holds or flushes after a candidate is
\* processed, remaining = total_canisters - researched, also in a run started
\* from the progress file of an earlier run
C6_RemainingIsTotalMinusResearched ==
    /\ pc = "checkpoint" =>
          progress.remaining = progress.total_canisters - progress.researched
    /\ ( /\ pc = "loop"
          /\ i > 0
          /\ i % SaveEvery(runner) = 0
          /\ progress.last_canister_id = L(canisters[i]) ) =>
          disk.progress.remaining =
              disk.progress.total_canisters - disk.progress.researched

\* C7: the loop flushes the stores and the tracker every K candidates and on
\* shutdown: at most K-1 processed candidates are unflushed while it runs, and
\* when the run has ended the files equal the stores and the tracker in memory
C7_FlushEveryKAndOnShutdown ==
    /\ pc \in Running => Unflushed <= SaveEvery(runner) - 1
    /\ (pc \in Ended /\ i > 0) =>
          /\ disk.identified = identified_results
          /\ disk.unknown = unknown_results
          /\ disk.progress = progress

\* C8: an interrupt at any point of the loop leads to a flush followed by exit:
\* once the process has ended on an interrupt, every record appended in memory
\* is in the files
C8_InterruptFlushesThenExits ==
    pc \in { "exited", "killed" } =>
        /\ SeqToSet(identified_results) \subseteq SeqToSet(disk.identified)
        /\ SeqToSet(unknown_results) \subseteq SeqToSet(disk.unknown)

\* the records research_canister has returned and nothing has rewritten: the
\* one at hand, those of the stores in memory and those of the store files,
\* but for the entries the pattern pass promoted
ClassifierRecords ==
    { r \in SeqToSet(identified_results) \cup SeqToSet(unknown_results)
            \cup SeqToSet(disk.identified) \cup SeqToSet(disk.unknown)
            \cup (IF pending.status # "none" THEN { pending.result } ELSE {}) :
        r.identified_by = Absent }

PromotionOf(id) ==
    /\ Len(disk'.identified) > Len(disk.identified)
    /\ \E m \in 1..Len(disk'.identified) :
          /\ m > Len(disk.identified)
          /\ disk'.identified[m].canister_id = id
          /\ disk'.identified[m].identified_by = L("candid_pattern_matching")

NoRepeatedId(store) ==
    \A m, n \in 1..Len(store) : store[m].canister_id = store[n].canister_id => m = n

\* C28: after any sequence of batch runs, interrupts and restarts over the
\* same candidate list and the same store files, no candidate id occurs twice
\* in the Identified file, twice in the Unknown file, or in both files
C28_NoDuplicateIds ==
    disk.needs_research = InitialDisk.needs_research =>
        /\ NoRepeatedId(disk.identified)
        /\ NoRepeatedId(disk.unknown)
        /\ Ids(disk.identified) \cap Ids(disk.unknown) = {}

\* how much a counter of the progress file exceeds what the run loaded
Increase(counter) == disk.progress[counter] - loaded.progress[counter]

\* C29: in every ProgressState the batch loop has written to disk, at a
\* periodic checkpoint, at the final save or in the interrupt handler, the
\* increase of researched since the run started equals the increase of
\* identified plus the increase of unknown_documented
C29_WrittenCountersAgree ==
    (pc # "idle" /\ disk.progress # NoFile) =>
        Increase("researched") = Increase("identified") + Increase("unknown_documented")

\* C30: if research_canister raises an unexpected error for a candidate, the
\* stores in memory and all progress counters are left as they were, and the
\* loop continues with the next candidate in input order
C30_ErrorLeavesStateAndContinues ==
    [][ /\ errors' # errors =>
              /\ pc = "research" /\ pc' = "loop"
              /\ identified_results' = identified_results
              /\ unknown_results' = unknown_results
              /\ progress' = progress
              /\ disk' = disk
              /\ canisters' = canisters /\ i' = i
        /\ (pc = "loop" /\ pc' = "research") =>
              /\ i' = i + 1
              /\ canisters' = canisters
              /\ identified_results' = identified_results
              /\ unknown_results' = unknown_results
      ]_vars

\* C30 witness: research_canister raised for the third candidate, which is in
\* no store and in no counter, and the loop is at the fourth
C30_Witness ==
    /\ pc = "research"
    /\ errors = 1
    /\ i = 4
    /\ canisters[3] \in Flaky
    /\ canisters[3] \notin Ids(identified_results) \cup Ids(unknown_results)
    /\ progress.researched = 2
    /\ progress.identified + progress.unknown_documented = 2
    /\ Len(identified_results) + Len(unknown_results) = 2

-----------------------------------------------------------------------------
(* Properties of the Label Sink calls of the batch loop *)

\* the loop body has appended the result of candidate X
Completed(X) ==
    \E n \in 1..Len(canisters) :
        /\ canisters[n] = X
        /\ \/ n < i
           \/ n = i /\ pc \in { "tally", "progress", "checkpoint", "loop" }
           \/ n = i /\ pc \in { "final", "done", "killed" } /\ pending = NoPending

\* the loop body has also counted the result of candidate X
Counted(X) ==
    \E n \in 1..Len(canisters) :
        /\ canisters[n] = X
        /\ \/ n < i
           \/ n = i /\ pc \in { "progress", "checkpoint", "loop" }
           \/ n = i /\ pc \in { "final", "done", "killed" } /\ pending = NoPending

\* C13: when the set_project call for an Identified candidate fails, the
\* record is still appended to the Identified store with its project, the
\* identified counter is still incremented, and the loop goes on; the pattern
\* pass keeps the promoted record in the Identified file as well
C13_SinkFailureStillRecorded ==
    /\ pc # "idle" =>
          \A k \in 1..Len(backend_calls) :
              (~backend_calls[k].ok /\ Completed(backend_calls[k].canister_id)) =>
                  \E m \in 1..Len(identified_results) :
                      /\ identified_results[m].canister_id = backend_calls[k].canister_id
                      /\ identified_results[m].project = backend_calls[k].label
                      /\ Counted(backend_calls[k].canister_id) => progress.identified >= m
    /\ pc = "loop" => progress.identified = Len(identified_results)
    /\ pc = "idle" =>
          \A k \in 1..Len(backend_calls) :
              ~backend_calls[k].ok =>
                  \E m \in 1..Len(disk.identified) :
                      /\ disk.identified[m].canister_id = backend_calls[k].canister_id
                      /\ disk.identified[m].project = backend_calls[k].label

\* C13 witness: the set_project call for c02 has failed, c02 is in the
\* Identified store and counted, and the loop is probing a later candidate
C13_Witness ==
    /\ pc = "research"
    /\ i > 2
    /\ backend_calls # << >>
    /\ backend_calls[1] = Made(SinkCall("c02", S_ckBTC \o L(" Ledger")), FALSE)
    /\ identified_results[1].canister_id = "c02"
    /\ progress.identified = Len(identified_results)

\* the calls made for candidate X
CallsFor(X) == { k \in 1..Len(backend_calls) : backend_calls[k].canister_id = X }

\* C14: for every candidate classified Identified in a run, the Label Sink is
\* called exactly once in that run, with the candidate id and the project as
\* label, whether or not the call succeeds; the same for every entry the
\* pattern pass promotes
C14_SinkCalledExactlyOnce ==
    /\ \A m \in 1..Len(identified_results) :
          /\ Cardinality(CallsFor(identified_results[m].canister_id)) = 1
          /\ \A k \in CallsFor(identified_results[m].canister_id) :
                backend_calls[k].label = identified_results[m].project
    /\ (pc = "append" /\ pending.status = "identified") =>
          /\ Cardinality(CallsFor(canisters[i])) = 1
          /\ backend_calls[Len(backend_calls)]
                \in { Made(SinkCall(canisters[i], pending.result.project), ok) :
                          ok \in BOOLEAN }
    /\ (pc = "idle" /\ backend_calls # << >>) =>
          \A m \in 1..Len(disk.identified) :
              disk.identified[m].identified_by = L("candid_pattern_matching") =>
                  /\ Cardinality(CallsFor(disk.identified[m].canister_id)) = 1
                  /\ \A k \in CallsFor(disk.identified[m].canister_id) :
                        backend_calls[k].label = disk.identified[m].project

\* C14 witness: a run has ended in which one call failed and a later one
\* succeeded, each made once
C14_Witness ==
    /\ pc = "done"
    /\ Len(identified_results) >= 2
    /\ Len(backend_calls) = Len(identified_results)
    /\ \E k, n \in 1..Len(backend_calls) :
          k < n /\ ~backend_calls[k].ok /\ backend_calls[n].ok

\* C15: if the candidate list cannot be read or an output path cannot be
\* opened for writing, the run aborts before any candidate is probed or any
\* Label Sink call is made, and no store or progress file is created or
\* modified
C15_FatalAbortsBeforeWork ==
    disk.denied # {} =>
        /\ i = 0
        /\ backend_calls = << >>
        /\ disk.identified = << >>
        /\ disk.unknown = << >>
        /\ disk.progress = NoFile

-----------------------------------------------------------------------------
(* Properties of the resume scripts *)

\* the ids in the three store files, read off the files entry by entry
StoredIds ==
    { x \in SeqToSet(ResumeUniverse) \cup { "A", "B", "C", "D" } :
        \E f \in { files.research_results, files.research_results2,
                   files.research_results_unknown } :
            \E k \in 1..Len(f) : f[k].canister_id = x }

\* C5: the computed set of unresearched candidates is exactly the candidate
\* universe minus the union of the ids in the store files, whatever the
\* researched counter of the progress file says; needs_research.json keeps the
\* order of the universe and lists no id twice
C5_UnresearchedIsUniverseMinusStores ==
    /\ remaining.needs_research # NoRemaining.needs_research =>
          /\ SeqToSet(remaining.needs_research) = SeqToSet(ResumeUniverse) \ StoredIds
          /\ Len(remaining.needs_research)
                = Cardinality(SeqToSet(ResumeUniverse) \ StoredIds)
    /\ remaining.truly_unresearched # NoRemaining.truly_unresearched =>
          remaining.truly_unresearched = SeqToSet(ResumeUniverse) \ StoredIds

\* C5 witness: the stores hold exactly A and B, one of them in the Unknown
\* store, the progress file counts no researched candidate, and
\* load_researched.py has written the list C, D
C5_Witness ==
    /\ runner = "load_researched"
    /\ StoredIds = { "A", "B" }
    /\ files.research_results_unknown = << [ canister_id |-> "B" ] >>
    /\ files.researched_counter = 0
    /\ remaining.needs_research = << "C", "D" >>

-----------------------------------------------------------------------------
(* Properties of the merge *)

\* a project that identifies a candidate
IsIdentifiedProject(p) == p \notin { UNKNOWN, UNKNOWN_TOKEN, None }

\* some input store holds an Identified record for X
InputIdentifies(X) ==
    \/ \E k \in 1..Len(inputs.original) :
          /\ inputs.original[k].status = "done"
          /\ inputs.original[k].canister_id = X
          /\ IsIdentifiedProject(inputs.original[k].project)
    \/ \E k \in 1..Len(inputs.new) :
          /\ inputs.new[k].canister_id = X
          /\ IsIdentifiedProject(inputs.new[k].project)

\* C9: in the merged view, every id for which some input store holds an
\* Identified record has an Identified record and no Unknown record, whatever
\* the order of the input stores
C9_IdentifiedOutranksUnknown ==
    merged.done =>
        \A X \in MergeIds :
            InputIdentifies(X) =>
                /\ X \in Keys(merged.all_canisters)
                /\ IsIdentifiedProject(Value(merged.all_canisters, X).project)
                /\ X \in Keys(merged.mappings.by_canister)
                /\ X \notin SeqToSet(merged.mappings.unknown)

\* the done rows of the plan with id X / the items of the file with id X
DoneRowsOf(X) ==
    { k \in 1..Len(inputs.original) :
        inputs.original[k].status = "done" /\ inputs.original[k].canister_id = X }

ItemsOf(X) == { k \in 1..Len(inputs.new) : inputs.new[k].canister_id = X }

Last(S) == CHOOSE k \in S : \A m \in S : m <= k

\* C10: on an id collision the merged view keeps the record of the store
\* supplied last (research_results.json after the plan), and its key set is
\* the union of the ids of the input stores
C10_LastWriterWins ==
    merged.done =>
        /\ Keys(merged.all_canisters)
              = { X \in MergeIds : DoneRowsOf(X) # {} \/ ItemsOf(X) # {} }
        /\ Len(merged.all_canisters) = Cardinality(Keys(merged.all_canisters))
        /\ \A X \in Keys(merged.all_canisters) :
              Value(merged.all_canisters, X) =
                  IF ItemsOf(X) # {}
                  THEN NewEntry(inputs.new[Last(ItemsOf(X))])
                  ELSE OriginalEntry(inputs.original[Last(DoneRowsOf(X))])

\* C10 witness: both stores hold the id A with different projects, and the
\* merge has been made
C10_Witness ==
    /\ merged.done
    /\ DoneRowsOf("A") # {} /\ ItemsOf("A") # {}
    /\ inputs.original[Last(DoneRowsOf("A"))].project = L("ICPSwap")
    /\ inputs.new[Last(ItemsOf("A"))].project = L("Sonic")
    /\ Value(merged.all_canisters, "A").project = L("Sonic")

====
